---- MODULE Spec2Model ----
(***************************************************************************)
(* A model of the AI engagement scorer: the four dimension analyzers, the  *)
(* scoring engine that aggregates them, and the callers of the engine.     *)
(* Message texts are TLA+ strings (ASCII), handled character by character  *)
(* the way the JavaScript string and regular-expression primitives handle  *)
(* them.                                                                   *)
(***************************************************************************)
EXTENDS Integers, Sequences, FiniteSets, TLC

\* ------------------------------------------------------------------ bounds

\* Longest conversation of messages the validation accepts.
MaxLen == 3
\* Longest array with elements the validation rejects.
MaxRejectedLen == 2
\* Number of analyzeConversation calls in one run of the process.
MaxCalls == 2

\* --------------------------------------------------- small integer helpers

Max(S) == CHOOSE m \in S : \A k \in S : k <= m
Min(S) == CHOOSE m \in S : \A k \in S : m <= k
Min2(a, b) == IF a <= b THEN a ELSE b

\* Some element of a non-empty set, the same one each time.
AnyOf(S) == CHOOSE x \in S : TRUE

RECURSIVE Sum(_, _)
\* Array.prototype.reduce((sum, x) => sum + x, 0) over the values of f at
\* the keys in ks.
Sum(f, ks) ==
  IF ks = {} THEN 0
  ELSE f[AnyOf(ks)] + Sum(f, ks \ {AnyOf(ks)})
SumAll(f) == Sum(f, DOMAIN f)

\* ------------------------------------------------------- JavaScript values

\* A JavaScript value as far as the engine looks at it: its typeof, and the
\* string or number it holds.
Undefined == [type |-> "undefined", str |-> "", num |-> 0]
Null == [type |-> "null", str |-> "", num |-> 0]
Str(s) == [type |-> "string", str |-> s, num |-> 0]
Num(n) == [type |-> "number", str |-> "", num |-> n]

\* ToBoolean: what `!v` negates.
Truthy(v) ==
  CASE v.type = "undefined" -> FALSE
    [] v.type = "null" -> FALSE
    [] v.type = "string" -> v.str # ""
    [] v.type = "number" -> v.num # 0
    [] OTHER -> TRUE

\* An element of a conversation array: an object with (possibly absent)
\* role and content properties, or null.
Msg(role, content) == [type |-> "object", role |-> role, content |-> content]
NullElement == [type |-> "null", role |-> Undefined, content |-> Undefined]

\* ------------------------------------------------------- text heuristics

\* The characters a..b of s that exist (String.prototype.substring, 1-based
\* and inclusive), and the character at index i ("" past the end).
Slice(s, a, b) ==
  IF a < 1 \/ a > Min2(b, Len(s)) THEN "" ELSE SubSeq(s, a, Min2(b, Len(s)))
CharAt(s, i) == Slice(s, i, i)

UpperCase == "ABCDEFGHIJKLMNOPQRSTUVWXYZ"
LowerCase == "abcdefghijklmnopqrstuvwxyz"

LowerChar(ch) ==
  IF \E k \in 1..26 : CharAt(UpperCase, k) = ch
  THEN CharAt(LowerCase, CHOOSE k \in 1..26 : CharAt(UpperCase, k) = ch)
  ELSE ch

RECURSIVE toLowerCase(_)
\* String.prototype.toLowerCase on ASCII text.
toLowerCase(s) ==
  IF Len(s) = 0 THEN ""
  ELSE IF Len(s) = 1 THEN LowerChar(s)
  ELSE toLowerCase(SubSeq(s, 1, Len(s) \div 2))
       \o toLowerCase(SubSeq(s, Len(s) \div 2 + 1, Len(s)))

\* String.prototype.includes: marker occurs in text as a substring.
includes(text, marker) ==
  \E i \in 1..(Len(text) - Len(marker) + 1) :
    SubSeq(text, i, i + Len(marker) - 1) = marker

\* markers.some(marker => text.includes(marker))
someIncluded(markers, text) == \E marker \in markers : includes(text, marker)

\* The ASCII characters the regular expression \s matches: space, line
\* feed, tab, carriage return, form feed and vertical tab (U+000B, which has
\* no escape and stands in its string as the character itself).
VerticalTab == ""
IsSpace(ch) == ch \in {" ", "\n", "\t", "\r", "\f", VerticalTab}
IsDigit(ch) == ch \in {"0", "1", "2", "3", "4", "5", "6", "7", "8", "9"}

\* content.split(/\s+/).length: one piece more than there are maximal runs
\* of whitespace, the empty pieces before a leading run and after a trailing
\* run included.
splitLength(content) ==
  1 + Cardinality({i \in 1..Len(content) :
        /\ IsSpace(CharAt(content, i))
        /\ (i = 1 \/ ~IsSpace(CharAt(content, i - 1)))})

\* (text.match(/<word>/g) || []).length for a literal word that cannot
\* overlap itself.
matchCount(text, word) ==
  Cardinality({i \in 1..(Len(text) - Len(word) + 1) :
                 SubSeq(text, i, i + Len(word) - 1) = word})

\* /\d+\./.test(content)
hasNumberedItem(content) ==
  \E i \in 1..(Len(content) - 1) :
    IsDigit(CharAt(content, i)) /\ CharAt(content, i + 1) = "."

\* The role patterns /<prefix>(a|an) (.+?)(?:\.|,|\n|$)/i, by their literal
\* prefix.
rolePatterns == <<"act as ", "you are ", "as ">>

\* (a|an) followed by a space, tried at index p: the index after the space,
\* 0 when neither alternative matches there.
ArticleEnd(text, p) ==
  IF toLowerCase(CharAt(text, p)) = "a" /\ CharAt(text, p + 1) = " " THEN p + 2
  ELSE IF toLowerCase(Slice(text, p, p + 1)) = "an" /\ CharAt(text, p + 2) = " " THEN p + 3
  ELSE 0

\* Where the captured role starts when the pattern matches from index i of
\* text, 0 when prefix and article do not match there.
RoleStart(text, prefix, i) ==
  IF toLowerCase(Slice(text, i, i + Len(prefix) - 1)) # prefix THEN 0
  ELSE ArticleEnd(text, i + Len(prefix))

\* The index after the lazily captured role that starts at r: the first
\* index past r holding '.', ',' or a newline, or the end of the text.
RoleEnd(text, r) ==
  Min({Len(text) + 1}
      \cup {j \in (r + 1)..Len(text) : CharAt(text, j) \in {".", ",", "\n"}})

\* A role starting at r can be captured: it has a first character, and every
\* character of it is one the regular expression's `.` accepts.
RoleAccepted(text, r) ==
  /\ r > 0
  /\ r <= Len(text)
  /\ \A j \in r..(RoleEnd(text, r) - 1) : CharAt(text, j) \notin {"\n", "\r"}

\* The pattern matches from index i.
RoleMatchesAt(text, prefix, i) == RoleAccepted(text, RoleStart(text, prefix, i))

\* match[2] of the match that starts at the least of the indices in starts,
\* "" when there is none (a captured role is never empty).
RoleCaptured(text, r) == SubSeq(text, r, RoleEnd(text, r) - 1)
leftmostRole(text, prefix, starts) ==
  IF starts = {} THEN "" ELSE RoleCaptured(text, RoleStart(text, prefix, Min(starts)))

\* text.match(pattern): match[2] of the leftmost match.
roleMatch(text, prefix) ==
  leftmostRole(text, prefix, {i \in 1..Len(text) : RoleMatchesAt(text, prefix, i)})

\* ------------------------------------------------------ per-message scores
\* What the scorers compute from the text of one message: the bodies of
\* their forEach callbacks and the tests of their loops.

specificMarkers == {"specific", "exactly", "precisely", "detailed", "particular"}
vagueMarkers == {"something", "stuff", "things", "help me with", "general"}

\* The forEach body of assessSpecificity: one prompt's score, from its
\* wordCount, hasSpecificMarkers and hasVagueMarkers.
specificityOf(content) ==
  (IF splitLength(content) > 50 THEN 2 ELSE 0)
  + (IF splitLength(content) > 100 THEN 1 ELSE 0)
  + (IF someIncluded(specificMarkers, toLowerCase(content)) THEN 2 ELSE 0)
  + (IF ~someIncluded(vagueMarkers, toLowerCase(content)) THEN 1 ELSE 0)

\* The forEach body of assessStructure: hasBulletPoints or hasNumbering,
\* hasSections with more than two line breaks, more than four line breaks.
\* The model's texts are ASCII, so content.includes of the bullet character
\* U+2022 is false of them.
structureOf(content) ==
  (IF includes(content, "-") \/ hasNumberedItem(content) THEN 3 ELSE 0)
  + (IF includes(content, "\n\n") /\ matchCount(content, "\n") > 2 THEN 2 ELSE 0)
  + (IF matchCount(content, "\n") > 4 THEN 1 ELSE 0)

contextMarkers == {"context:", "background:", "assume", "given that", "scenario:"}
exampleMarkers == {"example", "e.g.", "for instance"}
constraintMarkers == {"constraint", "limit", "must", "should not", "requirement"}

\* The forEach body of assessContext: hasContext, hasExamples,
\* hasConstraints.
contextOf(content) ==
  (IF someIncluded(contextMarkers, toLowerCase(content)) THEN 3 ELSE 0)
  + (IF someIncluded(exampleMarkers, toLowerCase(content)) THEN 2 ELSE 0)
  + (IF someIncluded(constraintMarkers, toLowerCase(content)) THEN 1 ELSE 0)

seniorityMarkers == {"with", "experienced", "expert"}

\* What a pattern adds to the score for the role it captured ("" when it
\* did not match).
roleScore(role) ==
  IF Len(role) > 5
  THEN 3 + (IF Len(role) > 15 THEN 2 ELSE 0)
         + (IF someIncluded(seniorityMarkers, role) THEN 2 ELSE 0)
  ELSE 0

\* What one role pattern adds to a prompt's role-definition score.
rolePatternScore(text, prefix) == roleScore(roleMatch(text, prefix))

\* The forEach body of assessRoleDefinition: the three patterns add up.
roleDefinitionOf(content) ==
  rolePatternScore(content, rolePatterns[1])
  + rolePatternScore(content, rolePatterns[2])
  + rolePatternScore(content, rolePatterns[3])

stepMarkers ==
  {"step by step", "first", "then", "next", "finally", "break down", "step 1", "step 2"}
subTaskMarkers == {"subtask", "component", "part"}

\* The forEach body of assessDecomposition: hasStepLanguage,
\* hasMultipleRequests, hasTaskList, hasSubTasks.
decompositionOf(content) ==
  (IF someIncluded(stepMarkers, toLowerCase(content)) THEN 3 ELSE 0)
  + (IF matchCount(toLowerCase(content), "and") >= 2 THEN 2 ELSE 0)
  + (IF includes(toLowerCase(content), "1.") /\ includes(toLowerCase(content), "2.")
     THEN 2 ELSE 0)
  + (IF someIncluded(subTaskMarkers, toLowerCase(content)) THEN 1 ELSE 0)

topicKeywords ==
  {"research", "analysis", "plan", "strategy", "design", "develop",
   "write", "create", "build", "analyze", "calculate", "optimize"}

\* The keywords extractMainTopics adds to its set for one message.
topicsOf(content) ==
  {keyword \in topicKeywords : includes(toLowerCase(content), keyword)}

continuityMarkers ==
  {"building on", "following from", "based on previous",
   "continue from", "as we discussed", "following up"}

\* The tests assessSequencing makes of the messages of a pair.
hasContinuityOf(content) == someIncluded(continuityMarkers, toLowerCase(content))
hasBasicOf(content) == someIncluded({"basic", "simple"}, toLowerCase(content))
hasAdvancedOf(content) == someIncluded({"advanced", "complex"}, toLowerCase(content))

objectiveMarkers ==
  {"objective:", "goal:", "i need to", "i want to achieve",
   "purpose:", "aim:", "target:", "deliverable:"}
actionVerbs == {"create", "build", "analyze", "develop"}
completionMarkers ==
  {"thanks", "perfect", "this solves", "exactly what i needed",
   "completed", "finished", "that works", "great, that answers"}
offTopicMarkers == {"unrelated", "by the way", "another question", "completely different"}

\* The tests assessGoalOrientation makes of the first, the last and every
\* message.
hasClearObjectiveOf(content) == someIncluded(objectiveMarkers, toLowerCase(content))
hasActionVerbsOf(content) == someIncluded(actionVerbs, toLowerCase(content))
indicatesCompletionOf(content) == someIncluded(completionMarkers, toLowerCase(content))
isRelevantOf(content) == ~someIncluded(offTopicMarkers, toLowerCase(content))

verificationMarkers ==
  {"verify", "check", "is this correct", "source", "reference",
   "fact check", "evidence", "proof", "citation", "confirm",
   "is this accurate", "double check", "validate"}
doubtMarkers ==
  {"are you sure", "i think", "actually", "but what about",
   "this seems", "i doubt", "is that right", "correction"}
sourceMarkers == {"source", "reference", "citation"}

\* The forEach body of assessVerification: verification requests, critical
\* questions, source requests.
verificationOf(content) ==
  (IF someIncluded(verificationMarkers, toLowerCase(content)) THEN 3 ELSE 0)
  + (IF someIncluded(doubtMarkers, toLowerCase(content)) THEN 2 ELSE 0)
  + (IF someIncluded(sourceMarkers, toLowerCase(content)) THEN 2 ELSE 0)

biasMarkers ==
  {"bias", "assumption", "perspective", "point of view",
   "limitation", "constraint", "what if", "alternative",
   "balanced", "neutral", "objective", "subjective"}
challengeMarkers ==
  {"why", "how do you know", "what makes you think",
   "what evidence", "prove it", "justify", "explain why"}
alternativeMarkers ==
  {"other perspective", "different angle", "alternative view",
   "on the other hand", "counterargument", "opposing view"}

\* The forEach body of assessBiasDetection.
biasDetectionOf(content) ==
  (IF someIncluded(biasMarkers, toLowerCase(content)) THEN 3 ELSE 0)
  + (IF someIncluded(challengeMarkers, toLowerCase(content)) THEN 2 ELSE 0)
  + (IF someIncluded(alternativeMarkers, toLowerCase(content)) THEN 2 ELSE 0)

qualityMarkers ==
  {"quality", "better", "improve", "enhance", "refine",
   "more detailed", "more specific", "higher quality",
   "comprehensive", "thorough", "depth", "clarity"}
improvementCriteria ==
  {"make it more concise", "add more details", "simplify",
   "more examples", "better structure", "clearer",
   "more professional", "more engaging", "more practical"}
comparativeMarkers ==
  {"this is good but", "could be better", "needs improvement",
   "not quite right", "almost there", "getting closer"}

\* The forEach body of assessQualityAssessment.
qualityAssessmentOf(content) ==
  (IF someIncluded(qualityMarkers, toLowerCase(content)) THEN 3 ELSE 0)
  + (IF someIncluded(improvementCriteria, toLowerCase(content)) THEN 3 ELSE 0)
  + (IF someIncluded(comparativeMarkers, toLowerCase(content)) THEN 2 ELSE 0)

\* ------------------------------------------------------------------ texts

\* The message texts of the model.
NoviceFirstText == "help me with marketing"
NoviceSecondText == "make it better"
AssistantText == "Hello! How can I help you?"
SystemText == "You are a helpful assistant."
GreetingText == "Hello"
NoRoleText == "This message has no role"
BriefText ==
  "Act as an experienced marketing expert.\n\nContext: for example, it must be specific:\n- first 1. research and design\n- then 2. build and verify each part\n\nGoal: why is this source biased?\n\nFollowing up on the simple draft, make the advanced one."
FollowUpText ==
  "Following up on the simple draft: thanks, I think it could be better, improve it, make it clearer and more advanced"

\* The conversations of the test suite's scoring tests.
noviceConversation ==
  <<Msg(Str("user"), Str(NoviceFirstText)),
    Msg(Str("assistant"),
        Str("Sure, I can help with marketing. What specifically do you need?")),
    Msg(Str("user"), Str(NoviceSecondText))>>

expertConversation ==
  <<Msg(Str("user"),
        Str("Act as a senior software architect with 15 years experience in cloud infrastructure.\n\n          I need to design a scalable microservices architecture for an e-commerce platform expecting 1 million daily users.\n          \n          Requirements:\n          - Handle 10,000 concurrent users during peak sales\n          - 99.9% uptime requirement\n          - Multi-region deployment for latency optimization\n          - Budget: $50,000/month infrastructure cost\n          \n          Please provide:\n          1. High-level architecture diagram description\n          2. Technology stack recommendations with justification\n          3. Cost breakdown estimation\n          4. Scaling strategy for each component")),
    Msg(Str("assistant"),
        Str("Based on your requirements, I recommend a cloud-native microservices architecture...")),
    Msg(Str("user"),
        Str("Thanks for the initial design. For the database layer, I need more specifics on the read/write splitting strategy. Also, please provide concrete evidence for why you chose Kubernetes over AWS ECS, including performance benchmarks if available."))>>

statsConversation ==
  <<Msg(Str("user"), Str("Hello there")),
    Msg(Str("assistant"), Str("Hi! How can I help you today?")),
    Msg(Str("user"), Str("I need help with programming"))>>

\* A conversation with five topic keywords, two of them only in the
\* assistant's message.
PlanText == "Here is a plan and a strategy."
topicConversation ==
  <<Msg(Str("user"), Str(BriefText)),
    Msg(Str("assistant"), Str(PlanText)),
    Msg(Str("user"), Str(FollowUpText))>>

RECURSIVE wordsText(_)
\* A text of n words, one space between them.
wordsText(n) ==
  IF n = 1 THEN "word"
  ELSE wordsText(n \div 2) \o " " \o wordsText(n - n \div 2)

\* Prompts at the word counts assessSpecificity compares with: 50 words, 51
\* words, 50 words and a space after them, 50 words and one more after a
\* form feed or a vertical tab, 100 words, 101 words of which one is the marker 'specific', a
\* space and 100 words.
lengthPrompts ==
  {wordsText(50), wordsText(51), wordsText(50) \o " ", wordsText(50) \o "\fword",
   wordsText(50) \o VerticalTab \o "word",
   wordsText(100), "specific " \o wordsText(100), " " \o wordsText(100)}

\* The conversations callers pass besides those built from Messages.
TestConversations ==
  {noviceConversation, expertConversation, statsConversation, topicConversation}
  \cup {<<Msg(Str("user"), Str(prompt))>> : prompt \in lengthPrompts}

Texts ==
  {NoviceFirstText, NoviceSecondText, AssistantText, SystemText, GreetingText,
   NoRoleText, BriefText, FollowUpText}
  \cup UNION {{conversation[i].content.str : i \in DOMAIN conversation} :
               conversation \in TestConversations}

\* Everything the scorers compute from one text.
MessageFacts(content) ==
  [specificity |-> specificityOf(content),
   structure |-> structureOf(content),
   context |-> contextOf(content),
   roleDefinition |-> roleDefinitionOf(content),
   decomposition |-> decompositionOf(content),
   topics |-> topicsOf(content),
   hasContinuity |-> hasContinuityOf(content),
   hasBasic |-> hasBasicOf(content),
   hasAdvanced |-> hasAdvancedOf(content),
   hasClearObjective |-> hasClearObjectiveOf(content),
   hasActionVerbs |-> hasActionVerbsOf(content),
   indicatesCompletion |-> indicatesCompletionOf(content),
   isRelevant |-> isRelevantOf(content),
   verification |-> verificationOf(content),
   biasDetection |-> biasDetectionOf(content),
   qualityAssessment |-> qualityAssessmentOf(content),
   words |-> splitLength(content)]

\* The same, tabulated once for the texts of the model.
TextFacts == [content \in Texts |-> MessageFacts(content)]

factsOf(content) ==
  IF content \in Texts THEN TextFacts[content] ELSE MessageFacts(content)

\* --------------------------------------------------------- scorer results

\* conversation.filter(msg => msg.role === 'user')
userMessagesOf(conversation) ==
  SelectSeq(conversation, LAMBDA msg : msg.role = Str("user"))

\* The running maximum of the per-message scores, from `let maxScore = 0`.
MaxScoreOver(scores) == Max({0} \cup {scores[i] : i \in DOMAIN scores})

\* A scorer reads msg.role of every element and calls string methods on
\* the content of the messages it scores: a null element, or a scored
\* content that is no string, makes it throw a TypeError.
HasNullElement(conversation) ==
  \E i \in DOMAIN conversation : conversation[i].type = "null"

HasNonStringContent(messages) ==
  \E i \in DOMAIN messages : messages[i].content.type # "string"

\* What analyze returns: a result, or a thrown error. `self` is the scorer
\* object the method was called on, as the call leaves it.
Thrown(self) ==
  [threw |-> TRUE, score |-> 0, breakdown |-> <<>>, feedback |-> <<>>, self |-> self]
Returned(self, breakdown, feedback) ==
  [threw |-> FALSE,
   score |-> SumAll(breakdown),
   breakdown |-> breakdown,
   feedback |-> feedback,
   self |-> self]

\* ------------------------------------------------- PromptEngineeringScorer

\* assessSpecificity adding up the prompts' scores instead of keeping the
\* highest.
assessSpecificitySummed(prompts) ==
  Min2(6, SumAll([i \in DOMAIN prompts |-> factsOf(prompts[i].content.str).specificity]))

assessSpecificity(prompts) ==
  Min2(6, MaxScoreOver([i \in DOMAIN prompts |-> factsOf(prompts[i].content.str).specificity]))

assessStructure(prompts) ==
  Min2(6, MaxScoreOver([i \in DOMAIN prompts |-> factsOf(prompts[i].content.str).structure]))

assessContext(prompts) ==
  Min2(6, MaxScoreOver([i \in DOMAIN prompts |-> factsOf(prompts[i].content.str).context]))

\* assessRoleDefinition without its Math.min.
assessRoleDefinitionUncapped(prompts) ==
  MaxScoreOver([i \in DOMAIN prompts |-> factsOf(prompts[i].content.str).roleDefinition])

assessRoleDefinition(prompts) ==
  Min2(7, MaxScoreOver([i \in DOMAIN prompts |->
                          factsOf(prompts[i].content.str).roleDefinition]))

PromptEngineeringFeedback(scores) ==
  LET feedback ==
        (IF scores.specificity < 3
         THEN <<"Try to be more specific in your prompts - include details about what you need">>
         ELSE <<>>)
        \o (IF scores.structure < 3
            THEN <<"Consider using bullet points, numbering, or sections to organize your prompts">>
            ELSE <<>>)
        \o (IF scores.context < 3
            THEN <<"Provide more context and examples to help the AI understand your needs better">>
            ELSE <<>>)
        \o (IF scores.roleDefinition < 3
            THEN <<"Define clear roles for the AI (e.g., 'Act as a marketing expert') to improve response quality">>
            ELSE <<>>)
  IN IF Len(feedback) > 0 THEN feedback
     ELSE <<"Your prompt engineering skills are strong! Keep up the good work.">>

\* The end of analyze: the total, the breakdown and the feedback of the scores.
PromptEngineeringResult(self, scores) ==
  Returned(self, scores, PromptEngineeringFeedback(scores))

\* An analyze that keeps the best specificity it has seen in a field of the
\* scorer object and scores against it.
PromptEngineeringAnalyzeKeepingBest(self, conversation) ==
  IF HasNullElement(conversation) THEN Thrown(self)
  ELSE LET userPrompts == userMessagesOf(conversation)
       IN IF Len(userPrompts) = 0
          THEN Returned(self,
                 [specificity |-> 0, structure |-> 0, context |-> 0, roleDefinition |-> 0],
                 <<"No user prompts found in conversation">>)
          ELSE IF HasNonStringContent(userPrompts) THEN Thrown(self)
          ELSE PromptEngineeringResult(
                 <<Max({assessSpecificity(userPrompts)} \cup {self[i] : i \in DOMAIN self})>>,
                 [specificity |->
                    Max({assessSpecificity(userPrompts)} \cup {self[i] : i \in DOMAIN self}),
                  structure |-> assessStructure(userPrompts),
                  context |-> assessContext(userPrompts),
                  roleDefinition |-> assessRoleDefinition(userPrompts)])

PromptEngineeringAnalyze(self, conversation) ==
  IF HasNullElement(conversation) THEN Thrown(self)
  ELSE LET userPrompts == userMessagesOf(conversation)
       IN IF Len(userPrompts) = 0
          THEN Returned(self,
                 [specificity |-> 0, structure |-> 0, context |-> 0, roleDefinition |-> 0],
                 <<"No user prompts found in conversation">>)
          ELSE IF HasNonStringContent(userPrompts) THEN Thrown(self)
          ELSE PromptEngineeringResult(self,
                 [specificity |-> assessSpecificity(userPrompts),
                  structure |-> assessStructure(userPrompts),
                  context |-> assessContext(userPrompts),
                  roleDefinition |-> assessRoleDefinition(userPrompts)])

\* ----------------------------------------------------- ProblemSolvingScorer

assessDecomposition(userMessages) ==
  Min2(8, MaxScoreOver([i \in DOMAIN userMessages |->
                          factsOf(userMessages[i].content.str).decomposition]))

\* The set of topic keywords some message of the conversation contains.
extractMainTopics(conversation) ==
  UNION {factsOf(conversation[i].content.str).topics : i \in DOMAIN conversation}

\* What the loop of assessSequencing adds for the pair ending at message i.
sequencingOfFacts(current, previous) ==
  (IF current.hasContinuity THEN 2 ELSE 0)
  + (IF previous.hasBasic /\ current.hasAdvanced THEN 2 ELSE 0)

sequencingOfPair(userMessages, i) ==
  sequencingOfFacts(factsOf(userMessages[i].content.str),
                    factsOf(userMessages[i - 1].content.str))

\* assessSequencing without its Math.min.
assessSequencingUncapped(conversation) ==
  LET userMessages == userMessagesOf(conversation)
  IN IF Len(userMessages) < 2 THEN 0
     ELSE SumAll([i \in 2..Len(userMessages) |-> sequencingOfPair(userMessages, i)])
          + (IF Cardinality(extractMainTopics(conversation)) <= 3 THEN 2 ELSE 0)

\* assessSequencing with the topic bonus added before the count of user
\* messages is looked at.
assessSequencingBonusFirst(conversation) ==
  LET userMessages == userMessagesOf(conversation)
  IN Min2(8, (IF Len(userMessages) < 2 THEN 0
              ELSE SumAll([i \in 2..Len(userMessages) |->
                             sequencingOfPair(userMessages, i)]))
             + (IF Cardinality(extractMainTopics(conversation)) <= 3 THEN 2 ELSE 0))

assessSequencing(conversation) ==
  LET userMessages == userMessagesOf(conversation)
  IN IF Len(userMessages) < 2 THEN Min2(8, 0)
     ELSE Min2(8, SumAll([i \in 2..Len(userMessages) |->
                            sequencingOfPair(userMessages, i)])
                  + (IF Cardinality(extractMainTopics(conversation)) <= 3 THEN 2 ELSE 0))

\* The sum of assessGoalOrientation from the facts of the first and the last
\* user message; focusRatio > 0.8, with focusRatio = relevantMessages /
\* totalMessages.
goalOrientationOfFacts(firstMessage, lastMessage, relevantMessages, totalMessages) ==
  Min2(9, (IF firstMessage.hasClearObjective THEN 3 ELSE 0)
          + (IF firstMessage.hasActionVerbs THEN 1 ELSE 0)
          + (IF lastMessage.indicatesCompletion THEN 3 ELSE 0)
          + (IF 10 * relevantMessages > 8 * totalMessages THEN 2 ELSE 0))

assessGoalOrientation(conversation) ==
  LET userMessages == userMessagesOf(conversation)
  IN IF Len(userMessages) = 0 THEN 0
     ELSE goalOrientationOfFacts(
            factsOf(userMessages[1].content.str),
            factsOf(userMessages[Len(userMessages)].content.str),
            Cardinality({i \in DOMAIN conversation :
                           factsOf(conversation[i].content.str).isRelevant}),
            Len(conversation))

ProblemSolvingFeedback(scores) ==
  LET feedback ==
        (IF scores.decomposition < 3
         THEN <<"Break complex problems into smaller steps - use 'step by step' or numbered tasks">>
         ELSE <<>>)
        \o (IF scores.sequencing < 3
            THEN <<"Build questions logically - reference previous answers and maintain topic flow">>
            ELSE <<>>)
        \o (IF scores.goalOrientation < 3
            THEN <<"Start with clear objectives and maintain focus throughout the conversation">>
            ELSE <<>>)
  IN IF Len(feedback) > 0 THEN feedback
     ELSE <<"Your problem-solving approach is strategic and effective! You break down tasks well and maintain clear goals.">>

\* The end of analyze: the total, the breakdown and the feedback of the scores.
ProblemSolvingResult(self, scores) ==
  Returned(self, scores, ProblemSolvingFeedback(scores))

ProblemSolvingAnalyze(self, conversation) ==
  IF HasNullElement(conversation) THEN Thrown(self)
  ELSE LET userMessages == userMessagesOf(conversation)
       IN IF Len(userMessages) = 0
          THEN Returned(self,
                 [decomposition |-> 0, sequencing |-> 0, goalOrientation |-> 0],
                 <<"No user messages found in conversation">>)
          ELSE IF HasNonStringContent(conversation) THEN Thrown(self)
          ELSE ProblemSolvingResult(self,
                 [decomposition |-> assessDecomposition(userMessages),
                  sequencing |-> assessSequencing(conversation),
                  goalOrientation |-> assessGoalOrientation(conversation)])

\* --------------------------------------------------- CriticalThinkingScorer

\* A verification score that is the last user message's.
assessVerificationOfLast(userMessages) ==
  IF Len(userMessages) = 0 THEN 0
  ELSE Min2(8, factsOf(userMessages[Len(userMessages)].content.str).verification)

assessVerification(userMessages) ==
  Min2(8, MaxScoreOver([i \in DOMAIN userMessages |->
                          factsOf(userMessages[i].content.str).verification]))

assessBiasDetection(userMessages) ==
  Min2(8, MaxScoreOver([i \in DOMAIN userMessages |->
                          factsOf(userMessages[i].content.str).biasDetection]))

assessQualityAssessment(userMessages) ==
  Min2(9, MaxScoreOver([i \in DOMAIN userMessages |->
                          factsOf(userMessages[i].content.str).qualityAssessment]))

CriticalThinkingFeedback(scores) ==
  LET feedback ==
        (IF scores.verification < 3
         THEN <<"Practice verifying AI outputs - ask for sources and double-check important facts">>
         ELSE <<>>)
        \o (IF scores.biasDetection < 3
            THEN <<"Consider potential biases in AI responses and ask for alternative perspectives">>
            ELSE <<>>)
        \o (IF scores.qualityAssessment < 3
            THEN <<"Evaluate output quality more critically - specify what makes a response 'good' or needs improvement">>
            ELSE <<>>)
  IN IF Len(feedback) > 0 THEN feedback
     ELSE <<"Your critical thinking skills are excellent! You effectively evaluate and validate AI responses.">>

\* The end of analyze: the total, the breakdown and the feedback of the scores.
CriticalThinkingResult(self, scores) ==
  Returned(self, scores, CriticalThinkingFeedback(scores))

CriticalThinkingAnalyze(self, conversation) ==
  IF HasNullElement(conversation) THEN Thrown(self)
  ELSE LET userMessages == userMessagesOf(conversation)
       IN IF Len(userMessages) = 0
          THEN Returned(self,
                 [verification |-> 0, biasDetection |-> 0, qualityAssessment |-> 0],
                 <<"No user messages found in conversation">>)
          ELSE IF HasNonStringContent(userMessages) THEN Thrown(self)
          ELSE CriticalThinkingResult(self,
                 [verification |-> assessVerification(userMessages),
                  biasDetection |-> assessBiasDetection(userMessages),
                  qualityAssessment |-> assessQualityAssessment(userMessages)])

\* ------------------------------------------------------------------ state

VARIABLES
  pc,          \* where the caller is: "idle", "pending" (a call is made), "done"
  request,     \* the call in progress: the method, the engine, the argument
  outcome,     \* what the call returned or threw
  now,         \* the clock new Date() reads: the calls of the engine so far
  dimensions,  \* each engine's `dimensions` field: dimension name -> scorer
  scorers,     \* the own properties of each scorer singleton
  irModule,    \* the behaviour of the iterative-refinement module
  invoked      \* the engine methods entered while serving the call, in order

vars == <<pc, request, outcome, now, dimensions, scorers, irModule, invoked>>

\* ------------------------------------------- IterativeRefinementScorer

\* ./dimensions/iterativeRefinement is required by the engine; its per-message
\* scores come from marker lists of its own. irModule holds what those lists
\* give a user message for each sub-criterion before the cap, and whether
\* scoring a user message throws.
IRModules ==
  {[throws |-> FALSE, precision |-> 0, errorCorrection |-> 0, progressiveImprovement |-> 0],
   [throws |-> FALSE, precision |-> 3, errorCorrection |-> 2, progressiveImprovement |-> 5],
   [throws |-> FALSE, precision |-> 10, errorCorrection |-> 10, progressiveImprovement |-> 10],
   [throws |-> TRUE, precision |-> 0, errorCorrection |-> 0, progressiveImprovement |-> 0]}

IterativeRefinementFeedback(scores) ==
  LET feedback ==
        (IF scores.precision < 3
         THEN <<"Make your refinement requests more precise">>
         ELSE <<>>)
        \o (IF scores.errorCorrection < 3
            THEN <<"Point out mistakes in earlier answers and ask for corrections">>
            ELSE <<>>)
        \o (IF scores.progressiveImprovement < 3
            THEN <<"Build on each answer to improve the result step by step">>
            ELSE <<>>)
  IN IF Len(feedback) > 0 THEN feedback
     ELSE <<"Your iterative refinement is effective!">>

\* The end of analyze: the total, the breakdown and the feedback of the scores.
IterativeRefinementResult(self, scores) ==
  Returned(self, scores, IterativeRefinementFeedback(scores))

IterativeRefinementAnalyze(self, conversation) ==
  IF HasNullElement(conversation) THEN Thrown(self)
  ELSE LET userMessages == userMessagesOf(conversation)
       IN IF Len(userMessages) = 0
          THEN Returned(self,
                 [precision |-> 0, errorCorrection |-> 0, progressiveImprovement |-> 0],
                 <<"No user messages found in conversation">>)
          ELSE IF irModule.throws \/ HasNonStringContent(userMessages) THEN Thrown(self)
          ELSE IterativeRefinementResult(self,
                 [precision |->
                    Min2(8, MaxScoreOver([i \in DOMAIN userMessages |-> irModule.precision])),
                  errorCorrection |->
                    Min2(8, MaxScoreOver([i \in DOMAIN userMessages |-> irModule.errorCorrection])),
                  progressiveImprovement |->
                    Min2(9, MaxScoreOver([i \in DOMAIN userMessages |->
                                            irModule.progressiveImprovement]))])

\* ------------------------------------------------------------ ScoringEngine

\* The keys of this.dimensions, in the order Object.entries yields them.
DimensionNames ==
  <<"promptEngineering", "iterativeRefinement", "problemSolving", "criticalThinking">>
Dimensions == {DimensionNames[k] : k \in DOMAIN DimensionNames}

\* The scorer singletons, by the module that exports them.
ScorerModules ==
  {"./dimensions/promptEngineering", "./dimensions/iterativeRefinement",
   "./dimensions/problemSolving", "./dimensions/criticalThinking"}

\* `module.exports = new <Scorer>()`: an object with no own properties.
NewScorer == <<>>

\* The constructor: this.dimensions.
NewDimensions ==
  [d \in Dimensions |->
     CASE d = "promptEngineering" -> "./dimensions/promptEngineering"
       [] d = "iterativeRefinement" -> "./dimensions/iterativeRefinement"
       [] d = "problemSolving" -> "./dimensions/problemSolving"
       [] d = "criticalThinking" -> "./dimensions/criticalThinking"]

\* scorer.analyze(conversation), by the class of the scorer.
ScorerAnalyze(scorer, self, conversation) ==
  CASE scorer = "./dimensions/promptEngineering" -> PromptEngineeringAnalyze(self, conversation)
    [] scorer = "./dimensions/iterativeRefinement" -> IterativeRefinementAnalyze(self, conversation)
    [] scorer = "./dimensions/problemSolving" -> ProblemSolvingAnalyze(self, conversation)
    [] scorer = "./dimensions/criticalThinking" -> CriticalThinkingAnalyze(self, conversation)

\* The ladder with strict comparisons.
getProficiencyLevelExclusive(score) ==
  IF score > 86 THEN "Expert"
  ELSE IF score > 76 THEN "Advanced"
  ELSE IF score > 61 THEN "Proficient"
  ELSE IF score > 41 THEN "Intermediate"
  ELSE "Novice"

\* The ladder with Intermediate from 30 on.
getProficiencyLevelFromThirty(score) ==
  IF score >= 86 THEN "Expert"
  ELSE IF score >= 76 THEN "Advanced"
  ELSE IF score >= 61 THEN "Proficient"
  ELSE IF score >= 30 THEN "Intermediate"
  ELSE "Novice"

getProficiencyLevel(score) ==
  IF score >= 86 THEN "Expert"
  ELSE IF score >= 76 THEN "Advanced"
  ELSE IF score >= 61 THEN "Proficient"
  ELSE IF score >= 41 THEN "Intermediate"
  ELSE "Novice"

RECURSIVE totalWords(_)
\* messages.reduce((sum, msg) => sum + msg.content.split(/\s+/).length, 0)
totalWords(messages) ==
  IF Len(messages) = 0 THEN 0
  ELSE totalWords(SubSeq(messages, 1, Len(messages) - 1))
       + factsOf(messages[Len(messages)].content.str).words

\* The quotient cut off at the integer below.
flooredAverage(total, count) == total \div count

\* Math.round(total / count) of non-negative integers: halves round up.
roundedAverage(total, count) == (2 * total + count) \div (2 * count)

\* Math.ceil(totalWords / 200 + totalWords / 40). The sum is 3 * totalWords
\* / 100; where that is a whole number both quotients are multiples of 0.5
\* and the floating-point sum is exact.
minutesTextPlain(totalMinutes) == ToString(totalMinutes) \o " minutes"

minutesText(totalMinutes) ==
  IF totalMinutes <= 1 THEN "1 minute" ELSE ToString(totalMinutes) \o " minutes"

estimateConversationDuration(conversation) ==
  minutesText((3 * totalWords(conversation) + 99) \div 100)

\* The statistics with every message that is not the user's counted as the
\* assistant's.
getConversationStatsOfTwoRoles(conversation) ==
  LET userMessages == userMessagesOf(conversation)
      assistantMessages == SelectSeq(conversation, LAMBDA msg : msg.role # Str("user"))
  IN [totalMessages |-> Len(conversation),
      userMessages |-> Len(userMessages),
      assistantMessages |-> Len(assistantMessages),
      averageUserWords |->
        IF Len(userMessages) > 0
        THEN roundedAverage(totalWords(userMessages), Len(userMessages)) ELSE 0,
      averageAssistantWords |->
        IF Len(assistantMessages) > 0
        THEN roundedAverage(totalWords(assistantMessages), Len(assistantMessages)) ELSE 0,
      conversationDuration |-> estimateConversationDuration(conversation)]

getConversationStats(conversation) ==
  LET userMessages == userMessagesOf(conversation)
      assistantMessages == SelectSeq(conversation, LAMBDA msg : msg.role = Str("assistant"))
  IN [totalMessages |-> Len(conversation),
      userMessages |-> Len(userMessages),
      assistantMessages |-> Len(assistantMessages),
      averageUserWords |->
        IF Len(userMessages) > 0
        THEN roundedAverage(totalWords(userMessages), Len(userMessages)) ELSE 0,
      averageAssistantWords |->
        IF Len(assistantMessages) > 0
        THEN roundedAverage(totalWords(assistantMessages), Len(assistantMessages)) ELSE 0,
      conversationDuration |-> estimateConversationDuration(conversation)]

\* The feedback as the loop collected it, nothing removed.
allOf(feedback) == feedback

RECURSIVE uniqueOf(_)
\* [...new Set(allFeedback)]: each string once, in order of first occurrence.
uniqueOf(feedback) ==
  IF Len(feedback) = 0 THEN <<>>
  ELSE LET front == uniqueOf(SubSeq(feedback, 1, Len(feedback) - 1))
           last == feedback[Len(feedback)]
       IN IF \E i \in DOMAIN front : front[i] = last THEN front ELSE Append(front, last)

\* A thrown error.
ThrownError(name, message) == [kind |-> "error", name |-> name, message |-> message]
NoError == [kind |-> "none"]

\* What the validation callback throws for the element at (0-based) index.
messageError(msg, index) ==
  IF msg.type = "null"
  THEN ThrownError("TypeError", "Cannot read properties of null (reading 'role')")
  ELSE IF ~Truthy(msg.role) \/ ~Truthy(msg.content)
  THEN ThrownError("Error",
         "Message at index " \o ToString(index) \o " must have role and content properties")
  ELSE IF msg.content.type # "string"
  THEN ThrownError("Error",
         "Message content at index " \o ToString(index) \o " must be a string")
  ELSE NoError

\* The forEach over the elements: the error the callback throws for the
\* first element it rejects.
messagesError(items) ==
  LET bad == {i \in DOMAIN items : messageError(items[i], i - 1).kind = "error"}
  IN IF bad = {} THEN NoError ELSE messageError(items[Min(bad)], Min(bad) - 1)

\* The guard with an empty array rejected as well.
validationErrorRejectingEmpty(conversation) ==
  IF ~Truthy(conversation) \/ conversation.type # "array" \/ Len(conversation.items) = 0
  THEN ThrownError("Error", "Conversation must be an array of messages")
  ELSE messagesError(conversation.items)

\* The guard without Array.isArray: forEach is then called on what is no
\* array.
validationErrorFalsyOnly(conversation) ==
  IF ~Truthy(conversation)
  THEN ThrownError("Error", "Conversation must be an array of messages")
  ELSE IF conversation.type # "array"
  THEN ThrownError("TypeError", "conversation.forEach is not a function")
  ELSE messagesError(conversation.items)

\* The guard and the forEach of analyzeConversation: the first error thrown.
validationError(conversation) ==
  IF ~Truthy(conversation) \/ conversation.type # "array"
  THEN ThrownError("Error", "Conversation must be an array of messages")
  ELSE messagesError(conversation.items)

\* The loop body with a catch that records the zero and says nothing.
recordDimensionSilently(acc, dimensionName, scorer, result) ==
  IF ~result.threw
  THEN [scores |-> (dimensionName :> result.score) @@ acc.scores,
        breakdown |-> (dimensionName :> result.breakdown) @@ acc.breakdown,
        allFeedback |-> acc.allFeedback \o result.feedback,
        invoked |-> Append(acc.invoked, dimensionName),
        scorers |-> [acc.scorers EXCEPT ![scorer] = result.self]]
  ELSE [scores |-> (dimensionName :> 0) @@ acc.scores,
        breakdown |-> (dimensionName :> <<>>) @@ acc.breakdown,
        allFeedback |-> acc.allFeedback,
        invoked |-> Append(acc.invoked, dimensionName),
        scorers |-> [acc.scorers EXCEPT ![scorer] = result.self]]

\* The body of the scoring loop for one dimension, given what analyze
\* returned or threw: the try and the catch. acc.invoked lists the
\* dimensions whose analyze has been called.
recordDimension(acc, dimensionName, scorer, result) ==
  IF ~result.threw
  THEN [scores |-> (dimensionName :> result.score) @@ acc.scores,
        breakdown |-> (dimensionName :> result.breakdown) @@ acc.breakdown,
        allFeedback |-> acc.allFeedback \o result.feedback,
        invoked |-> Append(acc.invoked, dimensionName),
        scorers |-> [acc.scorers EXCEPT ![scorer] = result.self]]
  ELSE [scores |-> (dimensionName :> 0) @@ acc.scores,
        breakdown |-> (dimensionName :> <<>>) @@ acc.breakdown,
        allFeedback |-> Append(acc.allFeedback, "Scoring issue in " \o dimensionName),
        invoked |-> Append(acc.invoked, dimensionName),
        scorers |-> [acc.scorers EXCEPT ![scorer] = result.self]]

\* A loop body whose analyzers look at the scores recorded so far: once
\* prompt engineering has scored below 5, the analyzers after it are not run
\* and their dimensions score as failed.
scoreDimensionReadingScores(acc, dimensionName, scorer, conversation) ==
  recordDimension(acc, dimensionName, scorer,
                  IF /\ "promptEngineering" \in DOMAIN acc.scores
                     /\ acc.scores["promptEngineering"] < 5
                  THEN Thrown(acc.scorers[scorer])
                  ELSE ScorerAnalyze(scorer, acc.scorers[scorer], conversation))

scoreDimension(acc, dimensionName, scorer, conversation) ==
  recordDimension(acc, dimensionName, scorer,
                  ScorerAnalyze(scorer, acc.scorers[scorer], conversation))

RECURSIVE scoreDimensions(_, _, _, _)
\* The scoring loop over the first k entries of this.dimensions.
scoreDimensions(k, engineDimensions, allScorers, conversation) ==
  IF k = 0
  THEN [scores |-> <<>>, breakdown |-> <<>>, allFeedback |-> <<>>, invoked |-> <<>>,
        scorers |-> allScorers]
  ELSE scoreDimension(scoreDimensions(k - 1, engineDimensions, allScorers, conversation),
                      DimensionNames[k], engineDimensions[DimensionNames[k]], conversation)

\* The orders the four entries of this.dimensions can be taken in.
DimensionOrders ==
  {order \in [1..Len(DimensionNames) -> Dimensions] :
     \A j, k \in DOMAIN order : order[j] = order[k] => j = k}

RECURSIVE scoreDimensionsInOrder(_, _, _, _, _)
\* The scoring loop run over the first k dimensions of an order.
scoreDimensionsInOrder(order, k, engineDimensions, allScorers, conversation) ==
  IF k = 0
  THEN [scores |-> <<>>, breakdown |-> <<>>, allFeedback |-> <<>>, invoked |-> <<>>,
        scorers |-> allScorers]
  ELSE scoreDimension(scoreDimensionsInOrder(order, k - 1, engineDimensions, allScorers,
                                             conversation),
                      order[k], engineDimensions[order[k]], conversation)

\* The return statement of analyzeConversation, from what the loop left.
reportOf(acc, totalScore, conversation, timestamp) ==
  [outcome |->
     [kind |-> "report",
      overallScore |-> totalScore,
      proficiencyLevel |-> getProficiencyLevel(totalScore),
      dimensionScores |-> acc.scores,
      detailedBreakdown |-> acc.breakdown,
      feedback |-> uniqueOf(acc.allFeedback),
      analysisTimestamp |-> timestamp,
      conversationStats |-> getConversationStats(conversation)],
   scorers |-> acc.scorers,
   invoked |-> <<"analyzeConversation">> \o acc.invoked]

\* A total that adds up three of the four dimensions.
totalOfThree(acc, conversation, timestamp) ==
  reportOf(acc,
           acc.scores["promptEngineering"] + acc.scores["problemSolving"]
           + acc.scores["criticalThinking"],
           conversation, timestamp)

\* Object.values(scores).reduce((sum, score) => sum + score, 0), and the return.
totalOf(acc, conversation, timestamp) ==
  reportOf(acc, SumAll(acc.scores), conversation, timestamp)

\* analyzeConversation on the engine whose field is engineDimensions: what
\* it returns or throws, the scorers as it leaves them, and the methods
\* entered on the way (itself, then the analyze of each dimension scored).
analyzeConversation(engineDimensions, allScorers, conversation, timestamp) ==
  LET error == validationError(conversation)
  IN IF error.kind = "error"
     THEN [outcome |-> error, scorers |-> allScorers, invoked |-> <<"analyzeConversation">>]
     ELSE totalOf(scoreDimensions(Len(DimensionNames), engineDimensions, allScorers,
                                  conversation.items),
                  conversation.items, timestamp)

\* ------------------------------------------------------------ POST /analyze

RECURSIVE templateString(_), joinedItems(_)
\* `${value}` in a template literal: the string a value converts to. An
\* array converts to its items joined with commas.
templateString(value) ==
  CASE value.type = "string" -> value.str
    [] value.type = "number" -> ToString(value.num)
    [] value.type = "undefined" -> "undefined"
    [] value.type = "null" -> "null"
    [] value.type = "array" -> joinedItems(value.items)
    [] OTHER -> "[object Object]"

\* Array.prototype.join: each item converted to a string, null and undefined
\* to the empty string, with commas between.
joinedItems(items) ==
  IF Len(items) = 0 THEN ""
  ELSE (IF Len(items) = 1 THEN ""
        ELSE joinedItems(SubSeq(items, 1, Len(items) - 1)) \o ",")
       \o (IF items[Len(items)].type \in {"null", "undefined"} THEN ""
           ELSE templateString(items[Len(items)]))

\* The checks validateConversation makes of the message at (0-based) index i:
\* the string it returns for it, null when it passes them all.
messageProblem(message, i) ==
  IF ~Truthy(message.role)
  THEN Str("Message at index " \o ToString(i) \o " missing 'role' property")
  ELSE IF message.role \notin {Str("user"), Str("assistant"), Str("system")}
  THEN Str("Message at index " \o ToString(i) \o " has invalid role: "
           \o templateString(message.role) \o ". Must be 'user', 'assistant', or 'system'")
  ELSE IF ~Truthy(message.content) /\ message.content # Str("")
  THEN Str("Message at index " \o ToString(i) \o " missing 'content' property")
  ELSE IF message.content.type # "string"
  THEN Str("Message at index " \o ToString(i) \o " content must be a string")
  ELSE IF Len(message.content.str) > 10000
  THEN Str("Message at index " \o ToString(i) \o " content too long ("
           \o ToString(Len(message.content.str)) \o " characters). Maximum is 10,000.")
  ELSE Null

\* validateConversation: the string or null it returns, or the TypeError
\* that reading message.role of a null element throws. The loop ends at the
\* first element that is null or has a problem.
validateConversation(conversation) ==
  LET stops == {i \in DOMAIN conversation :
                  \/ conversation[i].type = "null"
                  \/ messageProblem(conversation[i], i - 1) # Null}
  IN IF Len(conversation) = 0
     THEN [threw |-> FALSE, value |-> Str("Conversation array cannot be empty")]
     ELSE IF stops = {} THEN [threw |-> FALSE, value |-> Null]
     ELSE IF conversation[Min(stops)].type = "null"
     THEN [threw |-> TRUE, value |-> Str("Cannot read properties of null (reading 'role')")]
     ELSE [threw |-> FALSE, value |-> messageProblem(conversation[Min(stops)], Min(stops) - 1)]

\* res.status(status).json(body), with the fields of the body that the
\* conversation determines.
jsonResponse(status, body) == [kind |-> "response", status |-> status, body |-> body]

\* The handler from validateConversation on: validation is what
\* validateConversation gave, done what scoringEngine.analyzeConversation
\* gives if it is called.
analyzeValidated(validation, done, allScorers) ==
  IF validation.threw
  THEN [outcome |-> jsonResponse(500, [success |-> FALSE, error |-> "Analysis failed",
                                       message |-> validation.value.str]),
        scorers |-> allScorers, invoked |-> <<>>]
  ELSE IF Truthy(validation.value)
  THEN [outcome |-> jsonResponse(400, [success |-> FALSE,
                                       error |-> "Invalid conversation structure",
                                       details |-> validation.value.str]),
        scorers |-> allScorers, invoked |-> <<>>]
  ELSE IF done.outcome.kind = "error"
  THEN [outcome |-> jsonResponse(500, [success |-> FALSE, error |-> "Analysis failed",
                                       message |-> done.outcome.message]),
        scorers |-> done.scorers, invoked |-> done.invoked]
  ELSE [outcome |-> jsonResponse(200, [success |-> TRUE, analysis |-> done.outcome]),
        scorers |-> done.scorers, invoked |-> done.invoked]

\* The handler without validateConversation: the array check, then the
\* engine.
postAnalyzeUnvalidated(engineDimensions, allScorers, conversation, timestamp) ==
  IF ~Truthy(conversation) \/ conversation.type # "array"
  THEN [outcome |-> jsonResponse(400, [success |-> FALSE,
                      error |-> "Conversation data is required and must be an array"]),
        scorers |-> allScorers, invoked |-> <<>>]
  ELSE analyzeValidated([threw |-> FALSE, value |-> Null],
                        analyzeConversation(engineDimensions, allScorers, conversation,
                                            timestamp),
                        allScorers)

\* app.post('/analyze', ...) for a body with this conversation: the response,
\* the scorers as the handler leaves them, the engine methods entered.
postAnalyze(engineDimensions, allScorers, conversation, timestamp) ==
  IF ~Truthy(conversation) \/ conversation.type # "array"
  THEN [outcome |-> jsonResponse(400, [success |-> FALSE,
                      error |-> "Conversation data is required and must be an array",
                      details |-> "Provide conversation as array of {role: \"user\"|\"assistant\", content: \"string\"}"]),
        scorers |-> allScorers, invoked |-> <<>>]
  ELSE analyzeValidated(validateConversation(conversation.items),
                        analyzeConversation(engineDimensions, allScorers, conversation,
                                            timestamp),
                        allScorers)

\* ----------------------------------------------------------------- inputs

\* The engines of the process: the server's, which the handler of POST
\* /analyze calls, and the one the tests build and call.
Engines == {"server", "test"}

\* The elements conversations are built from: messages of every role with a
\* text as content, and the elements the engine's validation rejects (an
\* empty content among them).
Messages ==
  {Msg(Str("user"), Str(NoviceFirstText)),
   Msg(Str("user"), Str(NoviceSecondText)),
   Msg(Str("user"), Str(BriefText)),
   Msg(Str("user"), Str(FollowUpText)),
   Msg(Str("assistant"), Str(AssistantText)),
   Msg(Str("system"), Str(SystemText)),
   Msg(Str("invalid"), Str(GreetingText))}
RejectedElements ==
  {Msg(Undefined, Str(NoRoleText)),
   Msg(Str("user"), Undefined),
   Msg(Str("user"), Num(12345)),
   Msg(Str("user"), Str("")),
   NullElement}

ArrayOf(items) == [type |-> "array", str |-> "", num |-> 0, items |-> items]
EmptyObject == [type |-> "object", str |-> "", num |-> 0]

\* What callers pass as the conversation.
Arrays ==
  UNION {{ArrayOf(items) : items \in [1..n -> Messages]} : n \in 0..MaxLen}
  \cup UNION {{ArrayOf(items) : items \in [1..n -> Messages \cup RejectedElements]} :
               n \in 0..MaxRejectedLen}
  \cup {ArrayOf(conversation) : conversation \in TestConversations}
NonArrays == {Str("not an array"), Null, Undefined, EmptyObject}

\* What clients send as the conversation of a request body: short arrays
\* of any elements, the conversations of the tests, a message whose content
\* is longer than the 10,000 characters the server accepts, a message whose
\* role is a number, one whose role is an array, and what is no array.
Bodies ==
  UNION {{ArrayOf(items) : items \in [1..n -> Messages \cup RejectedElements]} :
          n \in 0..MaxRejectedLen}
  \cup {ArrayOf(conversation) : conversation \in TestConversations}
  \cup {ArrayOf(<<Msg(Str("user"), Str(wordsText(2001)))>>),
        ArrayOf(<<Msg(Num(5), Str(GreetingText))>>),
        ArrayOf(<<Msg(ArrayOf(<<Str("user"), Num(5)>>), Str(GreetingText))>>)}
  \cup NonArrays

\* Scores getProficiencyLevel is asked about.
MaxScore == 100

NoRequest == [op |-> "none"]
NoOutcome == [kind |-> "none"]

\* ------------------------------------------------------------ the machine

Init ==
  /\ pc = "idle"
  /\ request = NoRequest
  /\ outcome = NoOutcome
  /\ now = 0
  /\ dimensions = [e \in Engines |-> NewDimensions]
  /\ scorers = [m \in ScorerModules |-> NewScorer]
  /\ irModule \in IRModules
  /\ invoked = <<>>

\* A caller calls engine.analyzeConversation(conversation).
CallAnalyze(engine, conversation) ==
  /\ pc = "idle"
  /\ now < MaxCalls
  /\ pc' = "pending"
  /\ request' = [op |-> "analyzeConversation", engine |-> engine, arg |-> conversation]
  /\ UNCHANGED <<outcome, now, dimensions, scorers, irModule, invoked>>

\* A client posts a body with this conversation to /analyze.
PostRequest(conversation) ==
  /\ pc = "idle"
  /\ now < MaxCalls
  /\ pc' = "pending"
  /\ request' = [op |-> "POST /analyze", engine |-> "server", arg |-> conversation]
  /\ UNCHANGED <<outcome, now, dimensions, scorers, irModule, invoked>>

\* A caller calls engine.getProficiencyLevel(score).
CallLevel(engine, score) ==
  /\ pc = "idle"
  /\ pc' = "pending"
  /\ request' = [op |-> "getProficiencyLevel", engine |-> engine, arg |-> Num(score)]
  /\ UNCHANGED <<outcome, now, dimensions, scorers, irModule, invoked>>

\* ScoringEngine.analyzeConversation runs to its return or its throw.
AnalyzeConversation ==
  /\ pc = "pending"
  /\ request.op = "analyzeConversation"
  /\ \E done \in {analyzeConversation(dimensions[request.engine], scorers, request.arg, now)} :
       /\ outcome' = done.outcome
       /\ scorers' = done.scorers
       /\ invoked' = done.invoked
  /\ now' = now + 1
  /\ pc' = "done"
  /\ UNCHANGED <<request, dimensions, irModule>>

\* The handler of POST /analyze runs to its response; the clock moves when
\* the engine is called.
PostAnalyze ==
  /\ pc = "pending"
  /\ request.op = "POST /analyze"
  /\ \E done \in {postAnalyze(dimensions[request.engine], scorers, request.arg, now)} :
       /\ outcome' = done.outcome
       /\ scorers' = done.scorers
       /\ invoked' = done.invoked
       /\ now' = IF done.invoked = <<>> THEN now ELSE now + 1
  /\ pc' = "done"
  /\ UNCHANGED <<request, dimensions, irModule>>

\* ScoringEngine.getProficiencyLevel returns.
GetProficiencyLevel ==
  /\ pc = "pending"
  /\ request.op = "getProficiencyLevel"
  /\ outcome' = [kind |-> "level", level |-> getProficiencyLevel(request.arg.num)]
  /\ pc' = "done"
  /\ UNCHANGED <<request, now, dimensions, scorers, irModule, invoked>>

\* The caller has the result and lets go of it.
Return ==
  /\ pc = "done"
  /\ pc' = "idle"
  /\ request' = NoRequest
  /\ outcome' = NoOutcome
  /\ invoked' = <<>>
  /\ UNCHANGED <<now, dimensions, scorers, irModule>>

Next ==
  \/ \E conversation \in Arrays \cup NonArrays : CallAnalyze("test", conversation)
  \/ \E conversation \in Bodies : PostRequest(conversation)
  \/ \E engine \in Engines, score \in 0..MaxScore : CallLevel(engine, score)
  \/ AnalyzeConversation
  \/ PostAnalyze
  \/ GetProficiencyLevel
  \/ Return

Spec == Init /\ [][Next]_vars

\* ------------------------------------------------------------- properties

\* The levels in their order, and the ladder the README documents:
\* 0-40 Novice, 41-60 Intermediate, 61-75 Proficient, 76-85 Advanced,
\* 86-100 Expert.
LevelRank(level) ==
  CASE level = "Novice" -> 1
    [] level = "Intermediate" -> 2
    [] level = "Proficient" -> 3
    [] level = "Advanced" -> 4
    [] level = "Expert" -> 5
DocumentedLevel(score) ==
  IF score <= 40 THEN "Novice"
  ELSE IF score <= 60 THEN "Intermediate"
  ELSE IF score <= 75 THEN "Proficient"
  ELSE IF score <= 85 THEN "Advanced"
  ELSE "Expert"

\* The caps the README documents for the sub-criteria of the three scorers.
DocumentedCaps ==
  [specificity |-> 6, structure |-> 6, context |-> 6, roleDefinition |-> 7,
   decomposition |-> 8, sequencing |-> 8, goalOrientation |-> 9,
   verification |-> 8, biasDetection |-> 8, qualityAssessment |-> 9]

\* An element with a truthy role and a truthy string content: one the
\* validation callback lets through.
WellFormed(msg) ==
  /\ msg.type = "object"
  /\ Truthy(msg.role)
  /\ Truthy(msg.content)
  /\ msg.content.type = "string"

\* C1. Every report's overallScore is exactly the sum of the four values of
\* its dimensionScores, also when a dimension analyzer failed during the run.
C1_OverallScoreIsSum ==
  outcome.kind = "report" =>
    /\ DOMAIN outcome.dimensionScores = Dimensions
    /\ outcome.overallScore =
         outcome.dimensionScores["promptEngineering"]
         + outcome.dimensionScores["iterativeRefinement"]
         + outcome.dimensionScores["problemSolving"]
         + outcome.dimensionScores["criticalThinking"]

\* A report of a run in which the iterative-refinement analyzer failed and
\* the other dimensions scored.
C1_Witness ==
  /\ outcome.kind = "report"
  /\ \E i \in DOMAIN outcome.feedback :
       outcome.feedback[i] = "Scoring issue in iterativeRefinement"
  /\ outcome.dimensionScores["promptEngineering"] > 0
  /\ outcome.dimensionScores["problemSolving"] > 0
  /\ outcome.overallScore > 0

\* C2. In every report overallScore lies in 0..100 and each of the four
\* dimension scores lies in 0..25, every sub-criterion being capped.
C2_ScoresInRange ==
  outcome.kind = "report" =>
    /\ outcome.overallScore \in 0..100
    /\ \A d \in Dimensions : outcome.dimensionScores[d] \in 0..25

\* A report in which two dimensions reach 25 and the overall score is 90.
C2_Witness ==
  /\ outcome.kind = "report"
  /\ outcome.dimensionScores["iterativeRefinement"] = 25
  /\ outcome.dimensionScores["problemSolving"] = 25
  /\ outcome.overallScore = 90

\* C3. getProficiencyLevel returns the level of the documented ladder, never
\* a lower level for a higher score, and a report's proficiencyLevel is
\* getProficiencyLevel of its overallScore.
C3_ProficiencyLadder ==
  /\ outcome.kind = "level" =>
       /\ outcome.level = DocumentedLevel(request.arg.num)
       /\ \A lower \in 0..request.arg.num :
            LevelRank(getProficiencyLevel(lower)) <= LevelRank(outcome.level)
  /\ outcome.kind = "report" =>
       /\ outcome.proficiencyLevel = getProficiencyLevel(outcome.overallScore)
       /\ outcome.proficiencyLevel = DocumentedLevel(outcome.overallScore)

\* getProficiencyLevel(86) has returned Expert.
C3_Witness ==
  /\ pc = "done"
  /\ request.op = "getProficiencyLevel"
  /\ request.arg.num = 86
  /\ outcome.kind = "level"
  /\ outcome.level = "Expert"

\* C4. A conversation of well-formed messages none of which has role 'user'
\* (the empty conversation included) gets a report with overallScore 0,
\* proficiencyLevel Novice and every sub-criterion of every breakdown 0.
C4_NoUserMessagesScoreZero ==
  (/\ pc = "done"
   /\ request.op = "analyzeConversation"
   /\ request.arg.type = "array"
   /\ \A i \in DOMAIN request.arg.items :
        WellFormed(request.arg.items[i]) /\ request.arg.items[i].role # Str("user"))
  => /\ outcome.kind = "report"
     /\ outcome.overallScore = 0
     /\ outcome.proficiencyLevel = "Novice"
     /\ \A d \in Dimensions :
          \A k \in DOMAIN outcome.detailedBreakdown[d] :
            outcome.detailedBreakdown[d][k] = 0

\* The report for a conversation of an assistant and a system message.
C4_Witness ==
  /\ pc = "done"
  /\ request.op = "analyzeConversation"
  /\ request.arg = ArrayOf(<<Msg(Str("assistant"), Str(AssistantText)),
                             Msg(Str("system"), Str(SystemText))>>)
  /\ outcome.kind = "report"
  /\ outcome.overallScore = 0
  /\ DOMAIN outcome.detailedBreakdown["promptEngineering"]
       = {"specificity", "structure", "context", "roleDefinition"}

\* C5. In every report no sub-criterion of the prompt-engineering,
\* problem-solving and critical-thinking breakdowns exceeds its documented
\* cap, however many markers or matching messages the conversation has.
C5_SubCriteriaWithinCaps ==
  outcome.kind = "report" =>
    \A d \in {"promptEngineering", "problemSolving", "criticalThinking"} :
      /\ DOMAIN outcome.detailedBreakdown[d] \subseteq DOMAIN DocumentedCaps
      /\ \A k \in DOMAIN outcome.detailedBreakdown[d] :
           outcome.detailedBreakdown[d][k] <= DocumentedCaps[k]

\* A report for a conversation in which one message matches two role
\* patterns (14 before the cap) and the adjacent pairs earn 10 sequencing
\* points before the cap.
C5_Witness ==
  /\ pc = "done"
  /\ request.op = "analyzeConversation"
  /\ outcome.kind = "report"
  /\ \E i \in DOMAIN request.arg.items :
       /\ request.arg.items[i].role = Str("user")
       /\ factsOf(request.arg.items[i].content.str).roleDefinition > 7
  /\ assessSequencingUncapped(request.arg.items) > 8
  /\ outcome.detailedBreakdown["promptEngineering"].roleDefinition = 7
  /\ outcome.detailedBreakdown["problemSolving"].sequencing = 8

\* C6. An array with an element that lacks a role, lacks content or has a
\* content that is no string (a null element included) ends in an error
\* that names the index of such an element and its fault; no report.
C6_MalformedElementNamed ==
  (/\ pc = "done"
   /\ request.op = "analyzeConversation"
   /\ request.arg.type = "array"
   /\ \E i \in DOMAIN request.arg.items : ~WellFormed(request.arg.items[i]))
  => /\ outcome.kind = "error"
     /\ \E i \in DOMAIN request.arg.items :
          /\ ~WellFormed(request.arg.items[i])
          /\ outcome.message \in
               {"Message at index " \o ToString(i - 1)
                  \o " must have role and content properties",
                "Message content at index " \o ToString(i - 1) \o " must be a string"}

\* The call on [null] has ended in the TypeError of reading a property of
\* null, which names no index.
C6_NullElementTypeError ==
  /\ pc = "done"
  /\ request.op = "analyzeConversation"
  /\ request.arg = ArrayOf(<<NullElement>>)
  /\ outcome.kind = "error"
  /\ outcome.name = "TypeError"
  /\ outcome.message = "Cannot read properties of null (reading 'role')"

\* C7. A conversation argument that is no array (a string, null, undefined,
\* an object) is rejected with the error that says the conversation must be
\* an array; no report is returned.
C7_NonArrayRejected ==
  (/\ pc = "done"
   /\ request.op = "analyzeConversation"
   /\ request.arg.type # "array")
  => /\ outcome.kind = "error"
     /\ outcome.name = "Error"
     /\ outcome.message = "Conversation must be an array of messages"

\* The call on the string "not an array" has been rejected.
C7_Witness ==
  /\ pc = "done"
  /\ request.op = "analyzeConversation"
  /\ request.arg = Str("not an array")
  /\ outcome.kind = "error"
  /\ outcome.message = "Conversation must be an array of messages"

\* C8. A conversation with a message whose role is not one of 'user',
\* 'assistant', 'system' ends in an error.
C8_UnknownRoleRejected ==
  (/\ pc = "done"
   /\ request.op = "analyzeConversation"
   /\ request.arg.type = "array"
   /\ \E i \in DOMAIN request.arg.items :
        request.arg.items[i].role \notin {Str("user"), Str("assistant"), Str("system")})
  => outcome.kind = "error"

\* The call on [{role: 'invalid', content: 'Hello'}] has returned a report.
C8_UnknownRoleReported ==
  /\ pc = "done"
  /\ request.op = "analyzeConversation"
  /\ request.arg = ArrayOf(<<Msg(Str("invalid"), Str(GreetingText))>>)
  /\ outcome.kind = "report"
  /\ outcome.overallScore = 0

\* C9. When a dimension's analyzer throws on a validated conversation the
\* call still returns a report: that dimension has score 0, an empty
\* breakdown and a feedback entry naming it, and every dimension whose
\* analyzer did not throw has the score and breakdown its analyzer returned.
C9_FailedDimensionIsolated ==
  (/\ pc = "done"
   /\ request.op = "analyzeConversation"
   /\ validationError(request.arg) = NoError)
  => \A d \in Dimensions :
       \E result \in {ScorerAnalyze(dimensions[request.engine][d],
                                    scorers[dimensions[request.engine][d]],
                                    request.arg.items)} :
         /\ outcome.kind = "report"
         /\ result.threw =>
              /\ outcome.dimensionScores[d] = 0
              /\ DOMAIN outcome.detailedBreakdown[d] = {}
              /\ \E i \in DOMAIN outcome.feedback :
                   outcome.feedback[i] = "Scoring issue in " \o d
         /\ ~result.threw =>
              /\ outcome.dimensionScores[d] = result.score
              /\ outcome.detailedBreakdown[d] = result.breakdown

\* A report of a run in which the iterative-refinement analyzer threw: its
\* score is 0, the feedback names it, the other dimensions scored.
C9_Witness ==
  /\ pc = "done"
  /\ request.op = "analyzeConversation"
  /\ irModule.throws
  /\ outcome.kind = "report"
  /\ outcome.dimensionScores["iterativeRefinement"] = 0
  /\ DOMAIN outcome.detailedBreakdown["iterativeRefinement"] = {}
  /\ \E i \in DOMAIN outcome.feedback :
       outcome.feedback[i] = "Scoring issue in iterativeRefinement"
  /\ outcome.dimensionScores["promptEngineering"] = 22
  /\ outcome.dimensionScores["criticalThinking"] > 0

\* C10. Whatever calls were made before, through whichever engine, a call
\* ends as the same call on a fresh process does: the same error or, in the
\* report, the same dimensionScores, overallScore and proficiencyLevel.
C10_AnalysisIndependentOfHistory ==
  (pc = "done" /\ request.op = "analyzeConversation")
  => \E first \in {analyzeConversation(NewDimensions,
                                       [m \in ScorerModules |-> NewScorer],
                                       request.arg, 0).outcome} :
       /\ outcome.kind = first.kind
       /\ outcome.kind = "report" =>
            /\ outcome.dimensionScores = first.dimensionScores
            /\ outcome.overallScore = first.overallScore
            /\ outcome.proficiencyLevel = first.proficiencyLevel
       /\ outcome.kind = "error" => outcome.message = first.message

\* The second call of a run, made through the engine of the tests, has
\* returned a report with a positive score and a later timestamp.
C10_Witness ==
  /\ pc = "done"
  /\ request.op = "analyzeConversation"
  /\ request.engine = "test"
  /\ now = 2
  /\ outcome.kind = "report"
  /\ outcome.analysisTimestamp = 1
  /\ outcome.overallScore > 0

\* C11. A report's feedback is what the four analyzers gave, in the order of
\* the dimensions (for an analyzer that threw, the entry naming its
\* dimension), with every string kept once, at the place of its first
\* occurrence: no string twice, no string lost, none added.
C11_FeedbackDeduplicated ==
  (/\ pc = "done"
   /\ request.op = "analyzeConversation"
   /\ validationError(request.arg) = NoError)
  => \E results \in
        {[d \in Dimensions |->
            ScorerAnalyze(dimensions[request.engine][d],
                          scorers[dimensions[request.engine][d]], request.arg.items)]} :
     \E allFeedback \in
        {(IF results["promptEngineering"].threw
          THEN <<"Scoring issue in promptEngineering">>
          ELSE results["promptEngineering"].feedback)
         \o (IF results["iterativeRefinement"].threw
             THEN <<"Scoring issue in iterativeRefinement">>
             ELSE results["iterativeRefinement"].feedback)
         \o (IF results["problemSolving"].threw
             THEN <<"Scoring issue in problemSolving">>
             ELSE results["problemSolving"].feedback)
         \o (IF results["criticalThinking"].threw
             THEN <<"Scoring issue in criticalThinking">>
             ELSE results["criticalThinking"].feedback)} :
       /\ outcome.kind = "report"
       /\ \A i, j \in DOMAIN outcome.feedback :
            i # j => outcome.feedback[i] # outcome.feedback[j]
       /\ {outcome.feedback[i] : i \in DOMAIN outcome.feedback}
            = {allFeedback[i] : i \in DOMAIN allFeedback}
       /\ \A i, j \in DOMAIN outcome.feedback :
            i < j => Min({k \in DOMAIN allFeedback : allFeedback[k] = outcome.feedback[i]})
                     < Min({k \in DOMAIN allFeedback : allFeedback[k] = outcome.feedback[j]})

\* The report for a conversation of one assistant message: three analyzers
\* gave 'No user messages found in conversation', the report has it once,
\* after the prompt-engineering analyzer's own string.
C11_Witness ==
  /\ pc = "done"
  /\ request.op = "analyzeConversation"
  /\ request.arg = ArrayOf(<<Msg(Str("assistant"), Str(AssistantText))>>)
  /\ outcome.kind = "report"
  /\ outcome.feedback = <<"No user prompts found in conversation",
                          "No user messages found in conversation">>

\* C12. In every report totalMessages is the length of the conversation,
\* userMessages and assistantMessages are the numbers of messages with role
\* 'user' and 'assistant', and their sum is at most totalMessages, equal to
\* it exactly when no message has another role.
C12_MessageCounts ==
  (pc = "done" /\ request.op = "analyzeConversation" /\ outcome.kind = "report")
  => /\ outcome.conversationStats.totalMessages = Len(request.arg.items)
     /\ outcome.conversationStats.userMessages
          = Cardinality({i \in DOMAIN request.arg.items :
                           request.arg.items[i].role = Str("user")})
     /\ outcome.conversationStats.assistantMessages
          = Cardinality({i \in DOMAIN request.arg.items :
                           request.arg.items[i].role = Str("assistant")})
     /\ outcome.conversationStats.userMessages
          + outcome.conversationStats.assistantMessages
          <= outcome.conversationStats.totalMessages
     /\ (outcome.conversationStats.userMessages
           + outcome.conversationStats.assistantMessages
           = outcome.conversationStats.totalMessages)
        <=> \A i \in DOMAIN request.arg.items :
              request.arg.items[i].role \in {Str("user"), Str("assistant")}

\* The report for a conversation of a system, a user and an assistant
\* message: three messages, one the user's, one the assistant's.
C12_Witness ==
  /\ pc = "done"
  /\ request.op = "analyzeConversation"
  /\ request.arg = ArrayOf(<<Msg(Str("system"), Str(SystemText)),
                             Msg(Str("user"), Str(NoviceFirstText)),
                             Msg(Str("assistant"), Str(AssistantText))>>)
  /\ outcome.kind = "report"
  /\ outcome.conversationStats.totalMessages = 3
  /\ outcome.conversationStats.userMessages = 1
  /\ outcome.conversationStats.assistantMessages = 1

\* C13. averageUserWords and averageAssistantWords are the integers nearest
\* to the total word count of the user's (the assistant's) messages divided
\* by their number, and 0 when there is no such message.
C13_AveragesRounded ==
  (pc = "done" /\ request.op = "analyzeConversation" /\ outcome.kind = "report")
  => \A role \in {"user", "assistant"} :
       \E indices \in {{i \in DOMAIN request.arg.items :
                          request.arg.items[i].role = Str(role)}} :
         \E total \in {SumAll([i \in indices |->
                                 splitLength(request.arg.items[i].content.str)])} :
           \E average \in {IF role = "user"
                            THEN outcome.conversationStats.averageUserWords
                            ELSE outcome.conversationStats.averageAssistantWords} :
             /\ average \in Nat
             /\ indices = {} => average = 0
             /\ indices # {} =>
                  /\ 2 * (average * Cardinality(indices) - total) <= Cardinality(indices)
                  /\ 2 * (total - average * Cardinality(indices)) <= Cardinality(indices)

\* The report for three user messages of 4, 4 and 3 words: the average is
\* 4, the integer nearest to 11 / 3, and the assistant's average is 0.
C13_Witness ==
  /\ pc = "done"
  /\ request.op = "analyzeConversation"
  /\ request.arg = ArrayOf(<<Msg(Str("user"), Str(NoviceFirstText)),
                             Msg(Str("user"), Str(NoviceFirstText)),
                             Msg(Str("user"), Str(NoviceSecondText))>>)
  /\ outcome.kind = "report"
  /\ outcome.conversationStats.averageUserWords = 4
  /\ outcome.conversationStats.averageAssistantWords = 0

\* C14. averageUserWords is the mean of the word counts of the user's
\* messages, not rounded: its product with the number of user messages is
\* their total word count.
C14_AverageUnrounded ==
  (pc = "done" /\ request.op = "analyzeConversation" /\ outcome.kind = "report")
  => outcome.conversationStats.averageUserWords
       * outcome.conversationStats.userMessages
     = SumAll([i \in {k \in DOMAIN request.arg.items :
                        request.arg.items[k].role = Str("user")} |->
                splitLength(request.arg.items[i].content.str)])

\* The report for the conversation of the statistics test, whose user
\* messages have 2 and 5 words: averageUserWords is 4.
C14_AverageOfTestIsFour ==
  /\ pc = "done"
  /\ request.op = "analyzeConversation"
  /\ request.arg = ArrayOf(statsConversation)
  /\ outcome.kind = "report"
  /\ splitLength(request.arg.items[1].content.str) = 2
  /\ splitLength(request.arg.items[3].content.str) = 5
  /\ outcome.conversationStats.userMessages = 2
  /\ outcome.conversationStats.averageUserWords = 4

\* C15. A POST /analyze whose conversation is the empty array is answered
\* with status 400, success false and an error field containing 'cannot be
\* empty', and the engine is not called.
C15_EmptyConversationRejected ==
  (pc = "done" /\ request.op = "POST /analyze" /\ request.arg = ArrayOf(<<>>))
  => /\ outcome.status = 400
     /\ outcome.body.success = FALSE
     /\ includes(outcome.body.error, "cannot be empty")
     /\ invoked = <<>>

\* The response to the empty conversation: status 400, the error field
\* 'Invalid conversation structure', the words 'cannot be empty' in details.
C15_EmptyRejectionInDetails ==
  /\ pc = "done"
  /\ request.op = "POST /analyze"
  /\ request.arg = ArrayOf(<<>>)
  /\ outcome.status = 400
  /\ outcome.body.success = FALSE
  /\ outcome.body.error = "Invalid conversation structure"
  /\ outcome.body.details = "Conversation array cannot be empty"
  /\ invoked = <<>>

\* C16. The conversation of 'help me with marketing', an assistant reply and
\* 'make it better' gets a report with overallScore below 40, level Novice,
\* a prompt-engineering score below 10 and totalMessages 3, whatever the
\* iterative-refinement analyzer scores within 0..25.
C16_NoviceConversation ==
  (/\ pc = "done"
   /\ request.op = "analyzeConversation"
   /\ request.arg.type = "array"
   /\ Len(request.arg.items) = 3
   /\ request.arg.items[1] = Msg(Str("user"), Str(NoviceFirstText))
   /\ WellFormed(request.arg.items[2])
   /\ request.arg.items[2].role = Str("assistant")
   /\ request.arg.items[3] = Msg(Str("user"), Str(NoviceSecondText)))
  => /\ outcome.kind = "report"
     /\ outcome.overallScore < 40
     /\ outcome.proficiencyLevel = "Novice"
     /\ outcome.dimensionScores["promptEngineering"] < 10
     /\ outcome.dimensionScores["iterativeRefinement"] \in 0..25
     /\ outcome.conversationStats.totalMessages = 3

\* The report for the novice conversation of the tests when the
\* iterative-refinement analyzer gives its highest score: 1 + 25 + 4 + 3.
C16_Witness ==
  /\ pc = "done"
  /\ request.op = "analyzeConversation"
  /\ request.arg = ArrayOf(noviceConversation)
  /\ outcome.kind = "report"
  /\ outcome.dimensionScores["promptEngineering"] = 1
  /\ outcome.dimensionScores["iterativeRefinement"] = 25
  /\ outcome.overallScore = 33
  /\ outcome.proficiencyLevel = "Novice"

\* C17. The expert conversation of the tests gets a report with overallScore
\* above 70, level Advanced, a prompt-engineering score above 15 and a
\* critical-thinking score above 15.
C17_ExpertConversation ==
  (pc = "done" /\ request.op = "analyzeConversation"
   /\ request.arg = ArrayOf(expertConversation))
  => /\ outcome.kind = "report"
     /\ outcome.overallScore > 70
     /\ outcome.proficiencyLevel = "Advanced"
     /\ outcome.dimensionScores["promptEngineering"] > 15
     /\ outcome.dimensionScores["criticalThinking"] > 15

\* The report for the expert conversation when the iterative-refinement
\* analyzer gives its highest score: critical thinking 8 (3 + 2 + 3), prompt
\* engineering 17, problem solving 13, in all 63, level Proficient.
C17_ExpertScoresProficient ==
  /\ pc = "done"
  /\ request.op = "analyzeConversation"
  /\ request.arg = ArrayOf(expertConversation)
  /\ outcome.kind = "report"
  /\ outcome.dimensionScores["promptEngineering"] = 17
  /\ outcome.dimensionScores["iterativeRefinement"] = 25
  /\ outcome.dimensionScores["problemSolving"] = 13
  /\ outcome.dimensionScores["criticalThinking"] = 8
  /\ outcome.detailedBreakdown["criticalThinking"]
       = [verification |-> 3, biasDetection |-> 2, qualityAssessment |-> 3]
  /\ outcome.overallScore = 63
  /\ outcome.proficiencyLevel = "Proficient"

\* C18. Validation precedes scoring. A call of analyzeConversation with an
\* input its validation rejects ends in the error with no analyzer called.
\* A POST /analyze reaches the engine only with a non-empty array of
\* messages with a role of the three and a string content of at most 10,000
\* characters; a request answered with status 400 has not reached it, and
\* analyzers have run only on what the engine's validation accepts.
C18_ValidationPrecedesScoring ==
  /\ (pc = "done" /\ request.op = "analyzeConversation"
      /\ validationError(request.arg) # NoError)
     => /\ outcome.kind = "error"
        /\ invoked = <<"analyzeConversation">>
  /\ (pc = "done" /\ request.op = "POST /analyze")
     => /\ invoked # <<>> =>
             /\ invoked[1] = "analyzeConversation"
             /\ request.arg.type = "array"
             /\ Len(request.arg.items) > 0
             /\ \A i \in DOMAIN request.arg.items :
                  /\ request.arg.items[i].type = "object"
                  /\ request.arg.items[i].role \in {Str("user"), Str("assistant"), Str("system")}
                  /\ request.arg.items[i].content.type = "string"
                  /\ Len(request.arg.items[i].content.str) <= 10000
        /\ outcome.status = 400 => invoked = <<>>
        /\ Len(invoked) > 1 => validationError(request.arg) = NoError

\* The response to a POST of [{role: 'invalid', content: 'Hello'}], which
\* the engine's own validation lets through: status 400, naming index 0 and
\* the role, and the engine has not been called.
C18_Witness ==
  /\ pc = "done"
  /\ request.op = "POST /analyze"
  /\ request.arg = ArrayOf(<<Msg(Str("invalid"), Str(GreetingText))>>)
  /\ validationError(request.arg) = NoError
  /\ outcome.status = 400
  /\ outcome.body.details
       = "Message at index 0 has invalid role: invalid. Must be 'user', 'assistant', or 'system'"
  /\ invoked = <<>>

\* C19. Each prompt-engineering sub-score is the lesser of its cap and the
\* highest score any one user message earns for the sub-criterion: a
\* function of the set of the user's texts, so neither a sum over messages
\* nor dependent on their order or on other roles' messages. The dimension
\* score is the sum of the four sub-scores.
C19_MaxOverUserMessages ==
  (/\ pc = "done"
   /\ request.op = "analyzeConversation"
   /\ outcome.kind = "report"
   /\ \E i \in DOMAIN request.arg.items : request.arg.items[i].role = Str("user"))
  => \E trials \in {{factsOf(request.arg.items[i].content.str) :
                       i \in {k \in DOMAIN request.arg.items :
                                request.arg.items[k].role = Str("user")}}} :
       /\ outcome.detailedBreakdown["promptEngineering"]
            = [specificity |-> Min2(6, Max({trial.specificity : trial \in trials})),
               structure |-> Min2(6, Max({trial.structure : trial \in trials})),
               context |-> Min2(6, Max({trial.context : trial \in trials})),
               roleDefinition |-> Min2(7, Max({trial.roleDefinition : trial \in trials}))]
       /\ outcome.dimensionScores["promptEngineering"]
            = outcome.detailedBreakdown["promptEngineering"].specificity
              + outcome.detailedBreakdown["promptEngineering"].structure
              + outcome.detailedBreakdown["promptEngineering"].context
              + outcome.detailedBreakdown["promptEngineering"].roleDefinition

\* The report for a strong prompt, an assistant message and a weak prompt:
\* the sub-scores are the strong prompt's (specificity 3, not 3 + 1), the
\* dimension scores 22.
C19_Witness ==
  /\ pc = "done"
  /\ request.op = "analyzeConversation"
  /\ request.arg = ArrayOf(<<Msg(Str("user"), Str(BriefText)),
                             Msg(Str("assistant"), Str(AssistantText)),
                             Msg(Str("user"), Str(NoviceSecondText))>>)
  /\ factsOf(BriefText).specificity = 3
  /\ factsOf(NoviceSecondText).specificity = 1
  /\ outcome.kind = "report"
  /\ outcome.detailedBreakdown["promptEngineering"]
       = [specificity |-> 3, structure |-> 6, context |-> 6, roleDefinition |-> 7]
  /\ outcome.dimensionScores["promptEngineering"] = 22

\* C20. The specificity of a conversation's only message, a user message,
\* is 2 if it has more than 50 words, plus 1 if more than 100, plus 2 if
\* its lower-cased text has a specific-language marker, plus 1 if it has no
\* vague-language marker; its words are the maximal runs of characters that
\* are not whitespace, also when it begins or ends with whitespace.
C20_SpecificityByWordCount ==
  (/\ pc = "done"
   /\ request.op = "analyzeConversation"
   /\ outcome.kind = "report"
   /\ Len(request.arg.items) = 1
   /\ request.arg.items[1].role = Str("user"))
  => \E content \in {request.arg.items[1].content.str} :
       \E wordCount \in
           {Cardinality({i \in 1..Len(content) :
                           /\ ~IsSpace(CharAt(content, i))
                           /\ (i = 1 \/ IsSpace(CharAt(content, i - 1)))})} :
         outcome.detailedBreakdown["promptEngineering"].specificity
           = (IF wordCount > 50 THEN 2 ELSE 0)
             + (IF wordCount > 100 THEN 1 ELSE 0)
             + (IF someIncluded(specificMarkers, toLowerCase(content)) THEN 2 ELSE 0)
             + (IF ~someIncluded(vagueMarkers, toLowerCase(content)) THEN 1 ELSE 0)

\* The report for one prompt of 50 words with a space after the last: its
\* specificity is 3, the 2 points of more than 50 words among them.
C20_TrailingSpaceCountsAsWord ==
  /\ pc = "done"
  /\ request.op = "analyzeConversation"
  /\ request.arg = ArrayOf(<<Msg(Str("user"), Str(wordsText(50) \o " "))>>)
  /\ outcome.kind = "report"
  /\ outcome.detailedBreakdown["promptEngineering"].specificity = 3

\* C21. The sequencing sub-score of problem solving is 0 when the
\* conversation has fewer than two user messages, whatever topic keywords it
\* has. With two or more it is the lesser of 8 and the sum of 2 for every
\* user message after the first that has a continuity marker, 2 for every
\* such message that has advanced/complex where the user message before it
\* has basic/simple, and 2 if the messages of all roles together contain at
\* most 3 distinct topic keywords.
C21_Sequencing ==
  (/\ pc = "done"
   /\ request.op = "analyzeConversation"
   /\ outcome.kind = "report")
  => \E users \in {SelectSeq([i \in DOMAIN request.arg.items |->
                                 [role |-> request.arg.items[i].role,
                                  facts |-> factsOf(request.arg.items[i].content.str)]],
                              LAMBDA msg : msg.role = Str("user"))} :
       outcome.detailedBreakdown["problemSolving"].sequencing
         = IF Len(users) < 2 THEN 0
           ELSE Min2(8,
                  2 * Cardinality({i \in 2..Len(users) : users[i].facts.hasContinuity})
                  + 2 * Cardinality({i \in 2..Len(users) :
                                       /\ users[i - 1].facts.hasBasic
                                       /\ users[i].facts.hasAdvanced})
                  + (IF Cardinality(UNION {factsOf(request.arg.items[i].content.str).topics :
                                             i \in DOMAIN request.arg.items}) <= 3
                     THEN 2 ELSE 0))

\* The report for one user message and an assistant message with three
\* topic keywords between them: sequencing is 0, the topic bonus not given.
C21_Witness ==
  /\ pc = "done"
  /\ request.op = "analyzeConversation"
  /\ request.arg = ArrayOf(<<Msg(Str("user"), Str(BriefText)),
                             Msg(Str("assistant"), Str(AssistantText))>>)
  /\ factsOf(BriefText).topics = {"research", "design", "build"}
  /\ outcome.kind = "report"
  /\ outcome.detailedBreakdown["problemSolving"].sequencing = 0
  /\ outcome.detailedBreakdown["problemSolving"].decomposition > 0

\* C22. With W the words of all messages of the conversation, whatever
\* their role, and n the least whole number not below W/200 + W/40 (which
\* is 3W/100), conversationDuration is '1 minute' if n is at most 1, W = 0
\* included, and n followed by ' minutes' otherwise. The number shown is
\* never 0, and it is not below the number shown for the conversation
\* without its last message, which has fewer words.
C22_Duration ==
  (/\ pc = "done"
   /\ request.op = "analyzeConversation"
   /\ outcome.kind = "report")
  => \E W \in {SumAll([i \in DOMAIN request.arg.items |->
                         factsOf(request.arg.items[i].content.str).words])} :
       \E n \in {IF (3 * W) % 100 = 0 THEN (3 * W) \div 100 ELSE (3 * W) \div 100 + 1} :
         /\ outcome.conversationStats.conversationDuration
              = IF n <= 1 THEN "1 minute" ELSE ToString(n) \o " minutes"
         /\ outcome.conversationStats.conversationDuration # "0 minutes"
         /\ Len(request.arg.items) > 0 =>
              \E before \in {estimateConversationDuration(
                                SubSeq(request.arg.items, 1, Len(request.arg.items) - 1))} :
                \E m \in 1..(IF n <= 1 THEN 1 ELSE n) :
                  before = IF m = 1 THEN "1 minute" ELSE ToString(m) \o " minutes"

\* The report for a weak prompt, a reply and a long prompt: 53 words, 1.59
\* minutes, shown as '2 minutes'; without the long prompt the conversation
\* has 10 words and '1 minute'.
C22_Witness ==
  /\ pc = "done"
  /\ request.op = "analyzeConversation"
  /\ request.arg = ArrayOf(<<Msg(Str("user"), Str(NoviceFirstText)),
                             Msg(Str("assistant"), Str(AssistantText)),
                             Msg(Str("user"), Str(BriefText))>>)
  /\ totalWords(request.arg.items) = 53
  /\ outcome.kind = "report"
  /\ outcome.conversationStats.conversationDuration = "2 minutes"
  /\ estimateConversationDuration(SubSeq(request.arg.items, 1, 2)) = "1 minute"

\* C23. The four analyzers are independent: run over the conversation of a
\* report in any of the 24 orders, each given its own scorer object and the
\* conversation, they leave the dimensionScores and the detailedBreakdown
\* of the report, and with them its overallScore and proficiencyLevel; and
\* they leave every scorer object as it was.
C23_AnalyzersIndependent ==
  (/\ pc = "done"
   /\ request.op = "analyzeConversation"
   /\ outcome.kind = "report")
  => \A order \in DimensionOrders :
       \E acc \in {scoreDimensionsInOrder(order, Len(order), dimensions[request.engine],
                                          scorers, request.arg.items)} :
         /\ acc.invoked = order
         /\ acc.scores = outcome.dimensionScores
         /\ acc.breakdown = outcome.detailedBreakdown
         /\ SumAll(acc.scores) = outcome.overallScore
         /\ getProficiencyLevel(SumAll(acc.scores)) = outcome.proficiencyLevel
         /\ acc.scorers = scorers

\* The report for the novice conversation of the tests, with prompt
\* engineering scoring 1 and problem solving 4; problem solving run first
\* and prompt engineering last give the same scores.
C23_Witness ==
  /\ pc = "done"
  /\ request.op = "analyzeConversation"
  /\ request.arg = ArrayOf(noviceConversation)
  /\ outcome.kind = "report"
  /\ outcome.dimensionScores["promptEngineering"] = 1
  /\ outcome.dimensionScores["problemSolving"] = 4
  /\ \E acc \in {scoreDimensionsInOrder(
                     <<"problemSolving", "criticalThinking", "iterativeRefinement",
                       "promptEngineering">>,
                     4, dimensions[request.engine], scorers, request.arg.items)} :
       /\ acc.invoked[1] = "problemSolving"
       /\ acc.scores = outcome.dimensionScores

\* C24. A posted conversation that is a non-empty array of messages, each
\* with a role of user, assistant or system and a string content of at
\* most 10,000 characters (the empty string included), passes
\* validateConversation, passes the engine's own validation too, and is not
\* answered with the 500 'Analysis failed'.
C24_TransportAcceptedIsEngineAccepted ==
  (/\ pc = "done"
   /\ request.op = "POST /analyze"
   /\ request.arg.type = "array"
   /\ Len(request.arg.items) > 0
   /\ \A i \in DOMAIN request.arg.items :
        /\ request.arg.items[i].type = "object"
        /\ request.arg.items[i].role \in {Str("user"), Str("assistant"), Str("system")}
        /\ request.arg.items[i].content.type = "string"
        /\ Len(request.arg.items[i].content.str) <= 10000)
  => /\ validateConversation(request.arg.items) = [threw |-> FALSE, value |-> Null]
     /\ validationError(request.arg) = NoError
     /\ outcome.status # 500

\* The response to a POST of [{role: 'user', content: ''}]:
\* validateConversation finds nothing wrong, the engine is called and throws
\* from its own validation before any analyzer, and the status is 500.
C24_EmptyContentAnalysisFailed ==
  /\ pc = "done"
  /\ request.op = "POST /analyze"
  /\ request.arg = ArrayOf(<<Msg(Str("user"), Str(""))>>)
  /\ validateConversation(request.arg.items) = [threw |-> FALSE, value |-> Null]
  /\ validationError(request.arg).kind = "error"
  /\ invoked = <<"analyzeConversation">>
  /\ outcome.status = 500
  /\ outcome.body.success = FALSE
  /\ outcome.body.error = "Analysis failed"
  /\ outcome.body.message = "Message at index 0 must have role and content properties"

\* C25. Appending a message of any role to a conversation lowers neither
\* the prompt-engineering score, nor the critical-thinking score, nor any of
\* their sub-scores: each value in the report of a conversation is at
\* least the value the same conversation without its last message gets.
C25_ScoresNeverDecrease ==
  (/\ pc = "done"
   /\ request.op = "analyzeConversation"
   /\ outcome.kind = "report"
   /\ Len(request.arg.items) > 0)
  => \E before \in {SubSeq(request.arg.items, 1, Len(request.arg.items) - 1)} :
       /\ \E earlier \in {PromptEngineeringAnalyze(scorers["./dimensions/promptEngineering"],
                                                   before)} :
            /\ ~earlier.threw
            /\ earlier.score <= outcome.dimensionScores["promptEngineering"]
            /\ \A criterion \in DOMAIN earlier.breakdown :
                 earlier.breakdown[criterion]
                   <= outcome.detailedBreakdown["promptEngineering"][criterion]
       /\ \E earlier \in {CriticalThinkingAnalyze(scorers["./dimensions/criticalThinking"],
                                                  before)} :
            /\ ~earlier.threw
            /\ earlier.score <= outcome.dimensionScores["criticalThinking"]
            /\ \A criterion \in DOMAIN earlier.breakdown :
                 earlier.breakdown[criterion]
                   <= outcome.detailedBreakdown["criticalThinking"][criterion]

\* The report for a strong prompt followed by a weak one: prompt engineering
\* stays at the strong prompt's 22 and verification at its 5, where the weak
\* prompt alone gets 1 and 0; critical thinking goes from 10 to 13.
C25_Witness ==
  /\ pc = "done"
  /\ request.op = "analyzeConversation"
  /\ request.arg = ArrayOf(<<Msg(Str("user"), Str(BriefText)),
                             Msg(Str("user"), Str(NoviceSecondText))>>)
  /\ outcome.kind = "report"
  /\ PromptEngineeringAnalyze(<<>>, SubSeq(request.arg.items, 1, 1)).score = 22
  /\ PromptEngineeringAnalyze(<<>>, SubSeq(request.arg.items, 2, 2)).score = 1
  /\ outcome.dimensionScores["promptEngineering"] = 22
  /\ factsOf(NoviceSecondText).verification = 0
  /\ outcome.detailedBreakdown["criticalThinking"].verification = 5
  /\ CriticalThinkingAnalyze(<<>>, SubSeq(request.arg.items, 1, 1)).score = 10
  /\ outcome.dimensionScores["criticalThinking"] = 13
====
